---- MODULE Spec2Model ----
(***************************************************************************)
(* A model of the LinkedIn ad-library crawler (src/src/crawler.py):        *)
(* the discovery scroll loop, the batch scheduler, the detail extractor    *)
(* and the diff-upsert reconciler, with the persisted table of             *)
(* src/src/models.py.                                                      *)
(*                                                                         *)
(* Python values are encoded as sequences of strings whose first element   *)
(* is the type tag:  None = <<"None">>,  a str = <<"str", tok1, tok2 ...>> *)
(* (the text cut into tokens, "" = <<"str">>),  an int = <<"int", digits>>,*)
(* a date = <<"date", yyyy, mm, dd>>,  a list of {country, percentage}     *)
(* dicts = <<"list", c1, p1, c2, p2, ...>>.  A dict is a function whose    *)
(* DOMAIN is its key set.                                                  *)
(***************************************************************************)
EXTENDS Integers, Sequences, FiniteSets, TLC

VARIABLES
    \* ---- persisted table and the last reconciliation (upsert_ad)
    store,          \* the rows of public.linkedin_ads
    lastCall,       \* the last upsert_ad / _extract_page_content call: its input,
                    \* the persisted row(s) of its ad_id before it, and what it did
    \* ---- discovery (collect_ad_urls)
    dpc,            \* position of collect_ad_urls
    load_attempt,   \* `attempt` of the initial-load retry loop
    scroll_count,
    consecutive_unchanged_counts,
    last_height,
    previous_links_count,
    detail_urls,    \* self.detail_urls
    verified,       \* number of verification passes of this discovery
    last_wait,      \* the pacing wait of the last scroll iteration
    query_seen,     \* observation: a link with a query string was returned
    \* ---- processing (process_all_ads / process_chunk_with_retry)
    rpc,            \* position of process_all_ads
    company_id,     \* self.company_id
    frontier,       \* list(self.detail_urls) as _chunk_urls sees it
    contexts,       \* browser contexts created by this run: id -> "open"/"closed"
    pages,          \* pages: the ids of the contexts that got a page
    chunk_index,
    attempt,        \* `attempt` of process_chunk_with_retry
    tasks,          \* the extraction tasks of the current attempt
    successful_ads, \* records still to be upserted in this attempt
    chunk_counts,   \* new_ads, updated_ads, existing_ads of process_chunk_with_retry
    run_counts,     \* new_ads, updated_ads, existing_ads, processed_count of process_all_ads
    failed_urls,    \* self.metrics['failed_urls']
    consecutive_timeouts,  \* self.consecutive_timeouts
    sleeps,         \* number of inter-batch pacing delays performed
    result,         \* what process_all_ads returned / raised
    faults,         \* failures the environment may still inject in this run
    served,         \* the detail pages the site may answer with in this run
    hist,           \* observation of the run: what has happened so far
    \* ---- the /crawl trigger (src/main.py)
    tpc,            \* position of the crawl handler
    response        \* what the handler answered: a result or an HTTPException

upsertVars == <<store, lastCall>>
discVars == <<dpc, load_attempt, scroll_count, consecutive_unchanged_counts,
              last_height, previous_links_count, detail_urls, verified, last_wait,
              query_seen>>
runVars == <<rpc, company_id, frontier, contexts, pages, chunk_index, attempt, tasks,
             successful_ads, chunk_counts, run_counts, failed_urls,
             consecutive_timeouts, sleeps, result, faults, served, hist>>
trigVars == <<tpc, response>>
vars == <<upsertVars, discVars, runVars, trigVars>>

-----------------------------------------------------------------------------
(* Python values *)

None == <<"None">>
Str(s) == <<"str", s>>
EmptyStr == <<"str">>
IntV(s) == <<"int", s>>
EmptyList == <<"list">>

IsStr(v) == v[1] = "str"
IsDate(v) == v[1] = "date"
IsList(v) == v[1] = "list"
IsInt(v) == v[1] = "int"

\* bool(v): None, "", [] and 0 are falsy.
Truthy(v) == v \notin {None, EmptyStr, EmptyList, IntV("0")}

\* dict.get(key)
Get(d, f) == IF f \in DOMAIN d THEN d[f] ELSE None

Years == {"2023", "2024"}
MonthNames == <<"Jan", "Feb", "Mar", "Apr", "May", "Jun",
                "Jul", "Aug", "Sep", "Oct", "Nov", "Dec">>
TwoDigit == <<"01", "02", "03", "04", "05", "06", "07", "08", "09", "10",
              "11", "12", "13", "14", "15", "16", "17", "18", "19", "20",
              "21", "22", "23", "24", "25", "26", "27", "28", "29", "30", "31">>
OneOrTwoDigit == <<"1", "2", "3", "4", "5", "6", "7", "8", "9", "10",
                   "11", "12", "13", "14", "15", "16", "17", "18", "19", "20",
                   "21", "22", "23", "24", "25", "26", "27", "28", "29", "30", "31">>

IndexIn(seq, x) == IF \E i \in 1..Len(seq) : seq[i] = x
                   THEN CHOOSE i \in 1..Len(seq) : seq[i] = x
                   ELSE 0

DaysInMonth(y, m) ==
    IF m = 2 THEN (IF y = "2024" THEN 29 ELSE 28)
    ELSE IF m \in {4, 6, 9, 11} THEN 30 ELSE 31

-----------------------------------------------------------------------------
(* src/src/models.py: the columns of LinkedInAd the orchestrator writes *)

DirectFields == {"ad_id", "creative_type", "advertiser_name", "advertiser_logo",
                 "headline", "description", "promoted_text", "image_url",
                 "view_details_link", "campaign_impressions_range",
                 "company_id", "ad_type", "ad_redirect_url", "utm_parameters"}
DateFields == {"campaign_start_date", "campaign_end_date"}
JsonField == "campaign_impressions_by_country"
Columns == DirectFields \cup DateFields \cup {JsonField}

\* LinkedInAd(**transformed_data): a column not given is NULL.
LinkedInAd(t) == [c \in Columns |-> IF c \in DOMAIN t THEN t[c] ELSE None]

-----------------------------------------------------------------------------
(* Conversions *)

MonthIndex(tok) == IF IndexIn(TwoDigit, tok) \in 1..12 THEN IndexIn(TwoDigit, tok)
                   ELSE IF IndexIn(OneOrTwoDigit, tok) \in 1..12
                        THEN IndexIn(OneOrTwoDigit, tok) ELSE 0
DayIndex(tok) == IF IndexIn(TwoDigit, tok) > 0 THEN IndexIn(TwoDigit, tok)
                 ELSE IndexIn(OneOrTwoDigit, tok)

ValidDate(y, m, d) == /\ y \in Years
                      /\ m \in 1..12
                      /\ d \in 1..DaysInMonth(y, m)

\* datetime.strptime(s, '%Y/%m/%d').date(); None stands for ValueError.
StrptimeYmd(v) ==
    IF /\ IsStr(v) /\ Len(v) = 6 /\ v[3] = "/" /\ v[5] = "/"
       /\ ValidDate(v[2], MonthIndex(v[4]), DayIndex(v[6]))
    THEN <<"date", v[2], TwoDigit[MonthIndex(v[4])], TwoDigit[DayIndex(v[6])]>>
    ELSE None

\* str.strip() on a tokenised string
RECURSIVE StripLeft(_)
StripLeft(v) == IF Len(v) > 1 /\ v[2] = " "
                THEN StripLeft(<<"str">> \o SubSeq(v, 3, Len(v))) ELSE v
RECURSIVE StripRight(_)
StripRight(v) == IF Len(v) > 1 /\ v[Len(v)] = " "
                 THEN StripRight(SubSeq(v, 1, Len(v) - 1)) ELSE v
Strip(v) == StripRight(StripLeft(v))

\* utils.format_date: 'Mon D, YYYY' -> 'YYYY/MM/DD', anything else -> None
format_dateNoPad(date_str) ==
    IF ~Truthy(date_str) THEN None
    ELSE IF ~IsStr(date_str) THEN None
    ELSE LET s == Strip(date_str) IN
         IF /\ Len(s) = 7 /\ s[3] = " " /\ s[5] = "," /\ s[6] = " "
            /\ ValidDate(s[7], IndexIn(MonthNames, s[2]), DayIndex(s[4]))
         THEN <<"str", s[7], "/", OneOrTwoDigit[IndexIn(MonthNames, s[2])], "/",
                OneOrTwoDigit[DayIndex(s[4])]>>
         ELSE None
format_date(date_str) ==
    IF ~Truthy(date_str) THEN None
    ELSE IF ~IsStr(date_str) THEN None
    ELSE LET s == Strip(date_str) IN
         IF /\ Len(s) = 7 /\ s[3] = " " /\ s[5] = "," /\ s[6] = " "
            /\ ValidDate(s[7], IndexIn(MonthNames, s[2]), DayIndex(s[4]))
         THEN <<"str", s[7], "/", TwoDigit[IndexIn(MonthNames, s[2])], "/",
                TwoDigit[DayIndex(s[4])]>>
         ELSE None

\* int(x) of _transform_ad_data; None stands for ValueError / TypeError.
NumericTokens == {"123", "999", "101", "102"}
IsDigits(v) == IsStr(v) /\ Len(v) = 2 /\ v[2] \in NumericTokens
ToInt(v) == IF IsInt(v) THEN v
            ELSE IF IsDigits(v) THEN IntV(v[2])
            ELSE None

-----------------------------------------------------------------------------
(* AsyncLinkedInCrawler._transform_ad_data *)

\* json.loads(x) of a value that is neither list nor dict raises here
\* (None: TypeError); strptime of a truthy non-str raises TypeError.
TransformRaises(data) ==
    \/ JsonField \in DOMAIN data /\ ~IsList(data[JsonField])
    \/ \E f \in DateFields : Truthy(Get(data, f)) /\ ~IsStr(data[f])

TransformKeys(data) ==
    (DirectFields \cap DOMAIN data)
        \cup {f \in DateFields : Truthy(Get(data, f))}
        \cup ({JsonField} \cap DOMAIN data)

transform_ad_data(data) ==
    [f \in TransformKeys(data) |->
        IF f \in DateFields THEN StrptimeYmd(data[f])
        ELSE IF f = "company_id" THEN ToInt(data[f])
        ELSE data[f]]

-----------------------------------------------------------------------------
(* AsyncLinkedInCrawler.upsert_ad *)

\* the rows of the table with primary key x
Matching(st, x) == {r \in st : r["ad_id"] = x}

\* select(LinkedInAd).where(LinkedInAd.ad_id == x) ... .scalars().first():
\* the set is empty when first() gives None
SelectAd(st, x) == {r \in st : r["ad_id"] = x}
Lookup(st, x) == CHOOSE r \in SelectAd(st, x) : TRUE

\* `if not ad_data.get('ad_id')`
AdIdMissingKeyOnly(ad_data) == "ad_id" \notin DOMAIN ad_data
AdIdMissing(ad_data) == ~Truthy(Get(ad_data, "ad_id"))

\* the three comparison branches of the update loop (lines 576-586)
FieldDiffersNoCompare(current_value, new_value) ==
    IF IsDate(current_value) \/ IsList(current_value)
    THEN Truthy(new_value)
    ELSE current_value # new_value
FieldDiffers(current_value, new_value) ==
    IF IsDate(current_value)
    THEN Truthy(new_value) /\ current_value # new_value
    ELSE IF IsList(current_value)
    THEN Truthy(new_value) /\ current_value # new_value
    ELSE current_value # new_value

\* the fields the update loop assigns with setattr
AssignedFields(existing_ad, t) ==
    {f \in DOMAIN t \ {"ad_id"} : FieldDiffers(existing_ad[f], t[f])}

ApplyFields(existing_ad, t, fs) ==
    [c \in Columns |-> IF c \in fs THEN t[c] ELSE existing_ad[c]]

\* db.add(new_ad); commit: ad_id is the primary key (models.py), so a NULL or
\* duplicate key is refused by the table.
InsertRefused(st, row) == row["ad_id"] = None \/ Matching(st, row["ad_id"]) # {}
DbInsertNoAdd(st, row) == st
DbInsert(st, row) == st \cup {row}

\* setattr on the loaded row, then commit: the row old becomes new
DbUpdateEveryRow(st, old, new) ==
    {[c \in Columns |-> IF new[c] # old[c] THEN new[c] ELSE r[c]] : r \in st}
DbUpdate(st, old, new) == (st \ {old}) \cup {new}

DbFailures == {"none", "execute", "commit"}

\* lines 599-602: `except Exception: await db.rollback(); ...; raise`: the
\* pending assignments and the pending insert are discarded, the table is st
RaisedNoRollback(st, why) ==
    [outcome |-> "raised", store |-> st, assigned |-> {}, committed |-> FALSE,
     rolled_back |-> FALSE, why |-> why]
Raised(st, why) ==
    [outcome |-> "raised", store |-> st, assigned |-> {}, committed |-> FALSE,
     rolled_back |-> TRUE, why |-> why]

\* One call of upsert_ad on the table st; dbfail is the storage failure the
\* call meets (at the lookup, at the commit, or none).
upsert_ad(st, ad_data, dbfail) ==
    IF AdIdMissing(ad_data) THEN Raised(st, "ad_id is required")
    ELSE IF TransformRaises(ad_data) THEN Raised(st, "transform")
    ELSE IF dbfail = "execute" THEN Raised(st, "execute")
    ELSE
      LET t == transform_ad_data(ad_data)
          existing_ad == Lookup(st, t["ad_id"])
      IN IF SelectAd(st, t["ad_id"]) # {}
         THEN LET fs == AssignedFields(existing_ad, t) IN
              IF fs # {}
              THEN IF dbfail = "commit" THEN Raised(st, "commit")
                   ELSE [outcome |-> "updated",
                         store |-> DbUpdate(st, existing_ad,
                                            ApplyFields(existing_ad, t, fs)),
                         assigned |-> fs, committed |-> TRUE,
                         rolled_back |-> FALSE, why |-> ""]
              ELSE [outcome |-> "existing", store |-> st, assigned |-> {},
                    committed |-> FALSE, rolled_back |-> FALSE, why |-> ""]
         ELSE LET new_ad == LinkedInAd(t) IN
              IF dbfail = "commit" \/ InsertRefused(st, new_ad)
              THEN Raised(st, "commit")
              ELSE [outcome |-> "new", store |-> DbInsert(st, new_ad),
                    assigned |-> {}, committed |-> TRUE,
                    rolled_back |-> FALSE, why |-> ""]


-----------------------------------------------------------------------------
(* Reconciliation alone: any sequence of upsert_ad calls on the table *)

Absent == <<"absent">>

Date1 == <<"str", "2024", "/", "01", "/", "01">>
BadDate == <<"str", "2024", "/", "02", "/", "30">>
CountriesUS == <<"list", "US", "100%">>

HeadlineChoices == {Absent, None, Str("h1")}
EndDateChoices == {Absent, Date1, BadDate}
CountryChoices == {EmptyList, CountriesUS}

\* an extracted record (the dict upsert_ad is given)
MkAdData(id, headline, end_date, countries) ==
    LET given == [ad_id |-> id, headline |-> headline,
                  campaign_end_date |-> end_date,
                  campaign_impressions_by_country |-> countries,
                  ad_type |-> Str("company_ad"), description |-> None,
                  company_id |-> IntV("123")]
    IN [f \in {k \in DOMAIN given : given[k] # Absent} |-> given[f]]

InvalidIds == {Absent, None, EmptyStr}

\* Records of ad 101 in every combination of the field choices, two records of a
\* second ad 102, and records whose ad_id is missing, None or empty.
AdDataInputs ==
    {MkAdData(Str("101"), h, d, c) : h \in HeadlineChoices,
                                    d \in EndDateChoices, c \in CountryChoices}
        \cup {MkAdData(Str("102"), h, Date1, CountriesUS) : h \in {Absent, Str("h1")}}
        \cup {MkAdData(id, Str("h1"), Date1, CountriesUS) : id \in InvalidIds}

NoData == [f \in {} |-> None]
NoCall == [op |-> "none", page |-> NoData, ad_data |-> NoData, pre |-> {},
           outcome |-> "", assigned |-> {}, committed |-> FALSE,
           rolled_back |-> FALSE, repeat |-> FALSE]

\* repeat: the call before was an upsert of the same record with outcome 'existing'
UpsertCallRecord(ad_data, pre, r) ==
    [op |-> "upsert", page |-> NoData, ad_data |-> ad_data,
     pre |-> IF "ad_id" \in DOMAIN ad_data THEN Matching(pre, ad_data["ad_id"]) ELSE {},
     outcome |-> r.outcome,
     assigned |-> r.assigned, committed |-> r.committed,
     rolled_back |-> r.rolled_back,
     repeat |-> /\ lastCall.op \in {"upsert", "extract+upsert"}
                /\ lastCall.ad_data = ad_data
                /\ lastCall.outcome = "existing"]

InitUpsert == store = {} /\ lastCall = NoCall

\* upsert_ad(db, ad_data) for any record and any storage failure
UpsertCall ==
    \E ad_data \in AdDataInputs, dbfail \in DbFailures :
        LET r == upsert_ad(store, ad_data, dbfail) IN
        /\ store' = r.store
        /\ lastCall' = UpsertCallRecord(ad_data, store, r)
        /\ UNCHANGED <<discVars, runVars, trigVars>>


-----------------------------------------------------------------------------
(* AsyncLinkedInCrawler._extract_page_content *)

\* A page is the dict of what the regular expressions of _extract_page_content
\* find in its HTML: a key is present iff its pattern matches.
\*   canonical     <link rel="canonical" href="/ad-library/detail/(\d+)">
\*   start_text, end_text   the two groups of "Ran from X to Y"
\*   impressions, countries, logo, advertiser, creative, redirect, headline,
\*   description, image, company_link, personal_link

TagTokens == {"<b>", "</b>", "<br>"}
WhiteTokens == {" ", "\n"}

RECURSIVE CleanTokens(_, _)
\* re.sub(r'<[^>]+>', '', text); re.sub(r'\s+', ' ', text)
CleanTokens(toks, prevWhite) ==
    IF toks = <<>> THEN <<>>
    ELSE LET h == Head(toks) IN
         IF h \in TagTokens THEN CleanTokens(Tail(toks), prevWhite)
         ELSE IF h \in WhiteTokens
              THEN (IF prevWhite THEN <<>> ELSE <<" ">>) \o CleanTokens(Tail(toks), TRUE)
              ELSE <<h>> \o CleanTokens(Tail(toks), FALSE)

\* utils.clean_text
clean_text(text) ==
    IF ~Truthy(text) THEN EmptyStr
    ELSE Strip(<<"str">> \o CleanTokens(Tail(text), FALSE))

\* full_url.split('?'): the part before the first "?" and the part after it
SplitQuery(url) ==
    LET q == IndexIn(url, "?") IN
    IF q = 0 THEN <<url, None>>
    ELSE <<SubSeq(url, 1, q - 1),
           LET rest == SubSeq(url, q + 1, Len(url))
               q2 == IndexIn(rest, "?")
           IN <<"str">> \o (IF q2 = 0 THEN rest ELSE SubSeq(rest, 1, q2 - 1))>>

\* int(self.company_id) raises ValueError for a non-numeric identifier
CompanyIdAccepted(cid) == TRUE
CompanyIdIsInt(cid) == ToInt(cid) # None

\* lines 485-488: the company id matched in the page, if any
PageCompanyId(page) ==
    IF "company_link" \in DOMAIN page THEN page["company_link"] ELSE Absent

\* line 492: ad_data['company_id'] = int(self.company_id), whatever was matched
KeepPageCompanyId(matched, cid) == IF matched # Absent THEN matched ELSE ToInt(cid)
SetCompanyId(matched, cid) == ToInt(cid)

ExtractedFields(page, cid) ==
    LET dated == "start_text" \in DOMAIN page
        redirected == "redirect" \in DOMAIN page
        vals == [
          ad_id |-> Get(page, "canonical"),
          campaign_start_date |->
              IF dated THEN format_date(page["start_text"]) ELSE Absent,
          campaign_end_date |->
              IF dated THEN (IF "end_text" \in DOMAIN page
                             THEN format_date(page["end_text"]) ELSE None)
              ELSE Absent,
          campaign_impressions_range |->
              IF "impressions" \in DOMAIN page THEN Strip(page["impressions"])
              ELSE Absent,
          campaign_impressions_by_country |->
              IF "countries" \in DOMAIN page THEN page["countries"] ELSE EmptyList,
          advertiser_logo |->
              IF "logo" \in DOMAIN page THEN page["logo"] ELSE Absent,
          advertiser_name |->
              IF "advertiser" \in DOMAIN page THEN Strip(page["advertiser"])
              ELSE Absent,
          creative_type |->
              IF "creative" \in DOMAIN page THEN page["creative"] ELSE Absent,
          ad_type |->
              IF "personal_link" \in DOMAIN page THEN Str("personal_ad")
              ELSE Str("company_ad"),
          ad_redirect_url |->
              IF redirected THEN SplitQuery(page["redirect"])[1] ELSE Absent,
          utm_parameters |->
              IF redirected THEN SplitQuery(page["redirect"])[2] ELSE Absent,
          headline |->
              IF "headline" \in DOMAIN page THEN Strip(page["headline"]) ELSE Absent,
          description |->
              IF "description" \in DOMAIN page
              THEN clean_text(Strip(page["description"])) ELSE None,
          image_url |->
              IF "image" \in DOMAIN page THEN page["image"] ELSE Absent,
          company_id |-> SetCompanyId(PageCompanyId(page), cid)]
    IN [f \in {k \in DOMAIN vals : vals[k] # Absent} |-> vals[f]]

NoRecord == [kind |-> "none", data |-> NoData]

\* The result of _extract_page_content on a page: a record (dict), or None when
\* the canonical link is missing or the body raised (broken: page.content() or
\* wait_for_load_state raised; int(self.company_id) raised).
extract_page_content(page, cid, broken) ==
    IF broken THEN NoRecord
    ELSE IF "canonical" \notin DOMAIN page THEN NoRecord
    ELSE IF ~CompanyIdIsInt(cid) THEN NoRecord
    ELSE [kind |-> "record", data |-> ExtractedFields(page, cid)]

StartText == <<"str", "Jan", " ", "1", ",", " ", "2024">>
EndText == <<"str", "Mar", " ", "1", ",", " ", "2024">>

MkPage(canonical, headline, end_text, company_link) ==
    LET given == [canonical |-> canonical, headline |-> headline,
                  start_text |-> IF end_text = Absent THEN Absent ELSE StartText,
                  end_text |-> end_text, company_link |-> company_link,
                  countries |-> CountriesUS]
    IN [f \in {k \in DOMAIN given : given[k] # Absent} |-> given[f]]

PageInputs ==
    {MkPage(c, h, e, l) : c \in {Absent, Str("101")},
                          h \in {Absent, Str("h1")},
                          e \in {Absent, EndText},
                          l \in {Absent, Str("999")}}

CompanyIds == {Str("123"), Str("acme")}

\* What process_chunk_with_retry does with one page: extract it and, if a
\* record came back (`elif result:`), reconcile it.
ExtractUpsert ==
    \E page \in PageInputs :
        \/ /\ lastCall' = [NoCall EXCEPT !.op = "extract", !.page = page,
                                          !.outcome = "none"]
           /\ extract_page_content(page, company_id, TRUE).kind = "none"
           /\ UNCHANGED <<store, discVars, runVars, trigVars>>
        \/ \E dbfail \in DbFailures :
             LET x == extract_page_content(page, company_id, FALSE) IN
             /\ x.kind = "record"
             /\ LET r == upsert_ad(store, x.data, dbfail) IN
                 /\ store' = r.store
                 /\ lastCall' = [UpsertCallRecord(x.data, store, r)
                                    EXCEPT !.op = "extract+upsert", !.page = page]
             /\ UNCHANGED <<discVars, runVars, trigVars>>
        \/ /\ extract_page_content(page, company_id, FALSE).kind = "none"
           /\ lastCall' = [NoCall EXCEPT !.op = "extract", !.page = page,
                                          !.outcome = "none"]
           /\ UNCHANGED <<store, discVars, runVars, trigVars>>

-----------------------------------------------------------------------------
(* Specification of the reconciler: the table under any sequence of calls *)

DiscIdle ==
    /\ dpc = "idle"
    /\ load_attempt = 0
    /\ scroll_count = 0
    /\ consecutive_unchanged_counts = 0
    /\ last_height = 0
    /\ previous_links_count = 0
    /\ detail_urls = {}
    /\ verified = 0
    /\ last_wait = 0
    /\ query_seen = FALSE

\* What an observer of a run has seen so far: the number of
\* extract_ad_details calls started for each URL, and the current and the longest
\* streaks of failed extractions and of 'existing' reconciliations, and the
\* number of upsert_ad calls that raised.
NoHist == [extracted |-> <<>>, fail_streak |-> 0, max_fail_streak |-> 0,
           unchanged_streak |-> 0, max_unchanged_streak |-> 0,
           upsert_raised |-> 0]

NoResult == [kind |-> "none", value |-> 0]

\* no /crawl request is being handled
NoResponse == [status_code |-> 0, body |-> <<>>, context |-> "none"]
TriggerIdle == tpc = "idle" /\ response = NoResponse

RunIdle ==
    /\ rpc = "idle"
    /\ frontier = <<>>
    /\ contexts = <<>>
    /\ pages = <<>>
    /\ chunk_index = 0
    /\ attempt = 0
    /\ tasks = <<>>
    /\ successful_ads = <<>>
    /\ chunk_counts = [new |-> 0, updated |-> 0, existing |-> 0]
    /\ run_counts = [new |-> 0, updated |-> 0, existing |-> 0, processed |-> 0]
    /\ failed_urls = {}
    /\ consecutive_timeouts = 0
    /\ sleeps = 0
    /\ result = NoResult
    /\ faults = 0
    /\ served = {}
    /\ hist = NoHist

InitReconcile ==
    /\ InitUpsert
    /\ DiscIdle
    /\ RunIdle
    /\ TriggerIdle
    /\ company_id \in CompanyIds

NextReconcile == UpsertCall \/ ExtractUpsert

SpecReconcile == InitReconcile /\ [][NextReconcile]_vars


-----------------------------------------------------------------------------
(* Properties of the reconciler (checked under SpecReconcile) *)

IsUpsert(c) == c.op \in {"upsert", "extract+upsert"}
CallId(c) == Get(c.ad_data, "ad_id")
\* the extracted record as a full row (a field it does not carry is absent)
AsRow(ad_data) == LinkedInAd(transform_ad_data(ad_data))
PreRow(c) == CHOOSE r \in c.pre : TRUE
PostRow(c) == CHOOSE r \in Matching(store, CallId(c)) : TRUE
\* the fields other than ad_id in which the extracted record and the persisted
\* row differ
DiffFields(c) ==
    LET extracted == AsRow(c.ad_data)
        persisted == PreRow(c)
    IN {f \in Columns \ {"ad_id"} : extracted[f] # persisted[f]}
\* a reconciliation of a record whose ad_id was persisted before the call
OnPersisted(c) == IsUpsert(c) /\ c.pre # {}

\* C6: in upsert_ad for a record whose ad_id is already persisted, if any field
\* other than ad_id differs from the persisted value (a change to an absent or
\* empty value included), the outcome is 'updated' and afterwards the persisted
\* row equals the extracted record.
C6_AnyDifferenceIsWritten ==
    (OnPersisted(lastCall) /\ lastCall.outcome # "raised"
        /\ DiffFields(lastCall) # {})
    => /\ lastCall.outcome = "updated"
       /\ Matching(store, CallId(lastCall)) = {AsRow(lastCall.ad_data)}

\* C7: reconciling a record that equals its persisted row yields 'existing' and
\* issues no write (no field assignment, no commit); the persisted row is the
\* same before and after, also when the same record is reconciled twice in a row.
C7_UnchangedIssuesNoWrite ==
    /\ (OnPersisted(lastCall) /\ lastCall.pre = {AsRow(lastCall.ad_data)})
       => /\ lastCall.outcome \in {"existing", "raised"}
          /\ lastCall.assigned = {}
          /\ ~lastCall.committed
          /\ Matching(store, CallId(lastCall)) = lastCall.pre
    /\ (IsUpsert(lastCall) /\ lastCall.repeat)
       => /\ lastCall.outcome \in {"existing", "raised"}
          /\ lastCall.assigned = {}
          /\ ~lastCall.committed
          /\ Matching(store, CallId(lastCall)) = lastCall.pre

\* the same record reconciled twice in a row, equal to its row, both 'existing'
C7_Witness ==
    /\ IsUpsert(lastCall) /\ lastCall.repeat
    /\ lastCall.outcome = "existing"
    /\ lastCall.pre = {AsRow(lastCall.ad_data)}

\* C8: when the record differs from the persisted row in exactly one field, only
\* that field of the row is assigned; every other field of the row keeps its
\* value and every other row of the table is left as it was.
C8_OnlyTheChangedFieldIsAssigned ==
    [][LET c == lastCall'
           diff == DiffFields(c)
           persisted == PreRow(c)
       IN (OnPersisted(c) /\ c.pre = Matching(store, CallId(c))
              /\ Cardinality(diff) = 1)
          => /\ c.assigned \subseteq diff
             /\ \A r \in Matching(store', CallId(c)) :
                   \A f \in Columns \ diff : r[f] = persisted[f]
             /\ Cardinality(Matching(store', CallId(c))) = 1
             /\ store' \ Matching(store', CallId(c))
                   = store \ Matching(store, CallId(c))]_vars

\* one field differed and was written, with a second ad in the table
C8_Witness ==
    /\ OnPersisted(lastCall)
    /\ Cardinality(DiffFields(lastCall)) = 1
    /\ lastCall.outcome = "updated"
    /\ lastCall.assigned = DiffFields(lastCall)
    /\ Cardinality(store) = 2

\* C9: no row without an ad_id is ever persisted: a page without an ad
\* identifier yields no record and no write, and upsert_ad rejects a record with
\* a missing or empty ad_id before any insert or update.
C9_NoRowWithoutAdId ==
    /\ \A r \in store : Truthy(r["ad_id"])
    /\ lastCall.op = "extract+upsert" => "canonical" \in DOMAIN lastCall.page
    /\ (lastCall.op = "extract" /\ "canonical" \notin DOMAIN lastCall.page)
       => lastCall.outcome = "none" /\ ~lastCall.committed
    /\ (IsUpsert(lastCall) /\ ~Truthy(CallId(lastCall)))
       => lastCall.outcome = "raised" /\ ~lastCall.committed /\ lastCall.pre = {}

\* upsert_ad was given a record with an empty ad_id while the table holds rows
C9_Witness ==
    /\ lastCall.op = "upsert"
    /\ CallId(lastCall) = EmptyStr
    /\ store # {}

\* C10: the table holds at most one row per ad_id: a record whose ad_id is not
\* persisted is inserted as exactly one row with outcome 'new', and a record
\* whose ad_id is persisted never causes a second row.
C10_OneRowPerAdId ==
    /\ \A r1, r2 \in store : r1["ad_id"] = r2["ad_id"] => r1 = r2
    /\ (IsUpsert(lastCall) /\ lastCall.outcome # "raised")
       => /\ lastCall.outcome = "new" <=> lastCall.pre = {}
          /\ Cardinality(Matching(store, CallId(lastCall))) = 1
    /\ (IsUpsert(lastCall) /\ lastCall.outcome = "new")
       => Matching(store, CallId(lastCall)) = {AsRow(lastCall.ad_data)}

\* a second ad was inserted as 'new' beside a persisted one
C10_Witness ==
    /\ IsUpsert(lastCall)
    /\ lastCall.outcome = "new"
    /\ Cardinality(store) = 2


-----------------------------------------------------------------------------
(* AsyncLinkedInCrawler.collect_ad_urls: the discovery loop *)

MaxUrls == 2        \* distinct detail pages the listing can show

LoadRetries == 3            \* `for attempt in range(3)`
LoadRetryBase == 5          \* `asyncio.sleep(5 * (attempt + 1))`
UnchangedThreshold == 5     \* `consecutive_unchanged_counts >= 5`
MinScrolls == 3             \* `scroll_count >= 3`
ScrollCeiling == 50         \* `scroll_count >50`
base_wait_time == 2
increment == 1

UrlNames == <<"u1", "u2", "u3", "u4", "u5", "u6">>
BaseUrls == {UrlNames[i] : i \in 1..MaxUrls}
\* the href of an anchor: a detail URL, with or without a query string
Links == {<<"str", b>> : b \in BaseUrls} \cup {<<"str", b, "?", "q">> : b \in BaseUrls}
LinkLists == SUBSET Links
\* document.body.scrollHeight: the loop only tests it for equality with the
\* height of the iteration before, so two values give every pattern
Heights == {0, 1}

\* clean_link = link.split('?')[0]
HasQuery(link) == IndexIn(link, "?") # 0
CleanLinkKeepQuery(link) == link
CleanLink(link) == SplitQuery(link)[1]
CleanLinks(links) == {CleanLink(l) : l \in links}

\* `if consecutive_unchanged_counts >= 5 and scroll_count >= 3`
ThresholdReachedCountOnly(unchanged, count) == count >= MinScrolls
ThresholdReached(unchanged, count) ==
    unchanged >= UnchangedThreshold /\ count >= MinScrolls
\* `if scroll_count >50`
CeilingReachedNever(count) == FALSE
CeilingReached(count) == count > ScrollCeiling

InitDiscovery ==
    /\ InitUpsert
    /\ RunIdle
    /\ TriggerIdle
    /\ company_id = Str("123")
    /\ dpc = "loading"
    /\ load_attempt = 0
    /\ scroll_count = 0
    /\ consecutive_unchanged_counts = 0
    /\ last_height = 0
    /\ previous_links_count = 0
    /\ detail_urls = {}
    /\ verified = 0
    /\ last_wait = 0
    /\ query_seen = FALSE

discFrame == UNCHANGED <<upsertVars, runVars, trigVars>>

\* lines 56-74: the first page.goto of the listing page
LoadPage ==
    /\ dpc = "loading"
    /\ \E ok \in BOOLEAN :
         dpc' = IF ok THEN "scrolling" ELSE "retrying"
    /\ UNCHANGED <<load_attempt, scroll_count, consecutive_unchanged_counts,
                   last_height, previous_links_count, detail_urls, verified,
                   last_wait, query_seen>>
    /\ discFrame

\* line 79: asyncio.sleep(5 * (attempt + 1)) before the retry's page.goto
LoadRetryWaitFlat(a) == LoadRetryBase
LoadRetryWait(a) == LoadRetryBase * (a + 1)

\* lines 76-85: one pass of the retry loop (the loop variable is dead once the
\* loop is left, so it is cleared there)
RetryLoad ==
    /\ dpc = "retrying"
    /\ last_wait' = LoadRetryWait(load_attempt)
    /\ \E ok \in BOOLEAN :
         IF ok
         THEN dpc' = "scrolling" /\ load_attempt' = 0
         ELSE IF load_attempt = LoadRetries - 1
              THEN dpc' = "aborted" /\ UNCHANGED load_attempt
              ELSE dpc' = "retrying" /\ load_attempt' = load_attempt + 1
    /\ UNCHANGED <<scroll_count, consecutive_unchanged_counts, last_height,
                   previous_links_count, detail_urls, verified, query_seen>>
    /\ discFrame

\* where the loop goes after `scroll_count += 1` (lines 152-180)
AfterIterationAlwaysVerifies(unchanged, count) ==
    IF ThresholdReached(unchanged, count) \/ CeilingReached(count) THEN "verifying"
    ELSE "scrolling"
AfterIteration(unchanged, count) ==
    IF ThresholdReached(unchanged, count) THEN "verifying"
    ELSE IF CeilingReached(count) THEN "done"
    ELSE "scrolling"

\* lines 101-149 for one iteration in which the height query succeeds:
\* height is document.body.scrollHeight, links the hrefs queried, failed says
\* that the scroll or the link query raised.
ScrollIteration ==
    /\ dpc = "scrolling"
    /\ \E height \in Heights, failed \in BOOLEAN, links \in LinkLists :
         LET unchanged1 == IF height = last_height
                           THEN consecutive_unchanged_counts + 1 ELSE 0
             unchanged2 == IF failed THEN unchanged1 + 1 ELSE unchanged1
         IN /\ failed => links = {}
            /\ last_height' = height
            /\ consecutive_unchanged_counts' = unchanged2
            /\ last_wait' = base_wait_time + scroll_count * increment
            /\ detail_urls' = IF failed THEN detail_urls
                              ELSE detail_urls \cup CleanLinks(links)
            /\ query_seen' = (query_seen \/ \E l \in links : HasQuery(l))
            /\ previous_links_count' = IF failed THEN previous_links_count
                                       ELSE Cardinality(CleanLinks(links))
            /\ scroll_count' = scroll_count + 1
            /\ dpc' = AfterIteration(unchanged2, scroll_count + 1)
    /\ UNCHANGED <<load_attempt, verified>>
    /\ discFrame

\* line 105: page.evaluate('document.body.scrollHeight') is outside every try;
\* if it raises, collect_ad_urls raises.
HeightQueryRaises ==
    /\ dpc = "scrolling"
    /\ dpc' = "raised"
    /\ UNCHANGED <<load_attempt, scroll_count, consecutive_unchanged_counts,
                   last_height, previous_links_count, detail_urls, verified,
                   last_wait, query_seen>>
    /\ discFrame

\* lines 153-175: the verification pass, then break
VerificationPass ==
    /\ dpc = "verifying"
    /\ \E failed \in BOOLEAN, final_links \in LinkLists :
         /\ failed => final_links = {}
         /\ detail_urls' = detail_urls \cup CleanLinks(final_links)
         /\ query_seen' = (query_seen \/ \E l \in final_links : HasQuery(l))
    /\ verified' = verified + 1
    /\ dpc' = "done"
    /\ UNCHANGED <<load_attempt, scroll_count, consecutive_unchanged_counts,
                   last_height, previous_links_count, last_wait>>
    /\ discFrame

NextDiscovery ==
    \/ LoadPage
    \/ RetryLoad
    \/ ScrollIteration
    \/ HeightQueryRaises
    \/ VerificationPass

SpecDiscovery == InitDiscovery /\ [][NextDiscovery]_vars

\* Every await of collect_ad_urls returns or raises, so the coroutine always
\* takes its next step.
SpecDiscoveryFair == SpecDiscovery /\ WF_vars(NextDiscovery)

DiscoveryEnded == dpc \in {"done", "aborted", "raised"}

\* C3: discovery always terminates: whatever heights, link sets and errors the
\* listing page produces, the scroll loop never runs past the hard ceiling
\* (scroll_count never exceeds 51, and the loop is left once it exceeds 50) and
\* collect_ad_urls eventually ends.
C3_DiscoveryTerminates ==
    /\ [](scroll_count <= ScrollCeiling + 1)
    /\ [](dpc = "scrolling" => scroll_count <= ScrollCeiling)
    /\ <>DiscoveryEnded

\* the loop was left by the ceiling alone: 51 iterations, threshold never met
C3_Witness ==
    /\ dpc = "done"
    /\ scroll_count = ScrollCeiling + 1
    /\ verified = 0


-----------------------------------------------------------------------------
(* Processing: process_all_ads, process_chunk_with_retry, extract_ad_details *)

MaxFrontier == 3    \* URLs in the frontier of a run
MaxFaults == 3      \* failures the environment injects into one run

MAX_CONCURRENT_PAGES == 2
CHUNK_SIZE == 2
RETRY_COUNT == 5
max_retries == 3
max_consecutive_timeouts == 3

DigitTok == <<"0", "1", "2", "3", "4", "5", "6", "7", "8", "9">>
\* the i-th detail URL of the frontier
UrlOf(i) == <<"str", "/ad-library/detail/", DigitTok[(i \div 10) + 1],
              DigitTok[(i % 10) + 1]>>

\* list(self.detail_urls): the URLs are interchangeable, so one order stands for
\* every order the set may be listed in
FrontierOf(n) == [i \in 1..n |-> UrlOf(i)]

\* _chunk_urls: [urls[i:i + size] for i in range(0, len(urls), size)]
ChunkCount(urls, size) == (Len(urls) + size - 1) \div size
chunk_urlsFullOnly(urls, size) ==
    [k \in 1..(Len(urls) \div size) |->
        SubSeq(urls, (k - 1) * size + 1, k * size)]
chunk_urls(urls, size) ==
    [k \in 1..ChunkCount(urls, size) |->
        SubSeq(urls, (k - 1) * size + 1,
               IF k * size < Len(urls) THEN k * size ELSE Len(urls))]

\* the detail pages of a run: ad 101 without and with a headline, and a page
\* that carries no canonical link
PageV1 == MkPage(Str("101"), Absent, Absent, Absent)
PageV2 == MkPage(Str("101"), Str("h1"), Absent, Absent)
PageNoId == MkPage(Absent, Absent, Absent, Absent)
RunPages == {PageV1, PageV2, PageNoId}

ZeroCounts == [new |-> 0, updated |-> 0, existing |-> 0]

runFrame == UNCHANGED <<lastCall, discVars, company_id, frontier, failed_urls,
                        consecutive_timeouts, served, trigVars>>

\* line 190: `if total_ads == 0`
NoAdsNever(total_ads) == FALSE
NoAds(total_ads) == total_ads = 0

\* lines 188-200: an empty frontier returns 0 before any context is created
StartRun ==
    /\ rpc = "start"
    /\ IF NoAds(Len(frontier))
       THEN /\ rpc' = "returned"
            /\ result' = [kind |-> "returned", value |-> 0]
       ELSE /\ rpc' = "creating"
            /\ UNCHANGED result
    /\ UNCHANGED <<store, contexts, pages, chunk_index, attempt, tasks,
                   successful_ads, chunk_counts, run_counts, sleeps, faults, hist>>
    /\ runFrame

SessionOutcomes == {"ok", "new_context raises", "new_page raises"}

\* lines 208-214: one pass of `for i in range(MAX_CONCURRENT_PAGES)`; an
\* exception leaves the try block for the finally clause
CreateSession ==
    /\ rpc = "creating"
    /\ \E o \in SessionOutcomes :
         /\ o # "ok" => faults > 0
         /\ faults' = IF o = "ok" THEN faults ELSE faults - 1
         /\ contexts' = IF o = "new_context raises" THEN contexts
                        ELSE Append(contexts, "open")
         /\ pages' = IF o = "ok" THEN Append(pages, Len(contexts) + 1) ELSE pages
         /\ IF o = "ok"
            THEN /\ rpc' = IF Len(contexts) + 1 = MAX_CONCURRENT_PAGES
                           THEN "attempt" ELSE "creating"
                 /\ UNCHANGED result
            ELSE /\ rpc' = "finally"
                 /\ result' = [kind |-> "raising", value |-> 0]
    /\ UNCHANGED <<store, chunk_index, attempt, tasks, successful_ads,
                   chunk_counts, run_counts, sleeps, hist>>
    /\ runFrame

\* line 655: page_index = i % len(pages)
PageIndexFirst(i, n) == 0
PageIndex(i, n) == i % n

\* lines 652-663: one extract_ad_details task per URL of the chunk, created at
\* every pass of `for attempt in range(max_retries)`
StartAttempt ==
    /\ rpc = "attempt"
    /\ LET chunk == chunk_urls(frontier, CHUNK_SIZE)[chunk_index + 1]
           first == chunk_index * CHUNK_SIZE
       IN /\ tasks' = [i \in 1..Len(chunk) |->
                          [url |-> chunk[i], page_index |-> PageIndex(i - 1, Len(pages)),
                           nav |-> 0, gotos |-> 0, last |-> "",
                           status |-> "running", result |-> NoRecord]]
          /\ hist' = [hist EXCEPT !.extracted =
                         [u \in DOMAIN @ |->
                             IF u > first /\ u <= first + Len(chunk)
                             THEN @[u] + 1 ELSE @[u]]]
    /\ rpc' = "extracting"
    /\ UNCHANGED <<store, contexts, pages, chunk_index, attempt, successful_ads,
                   chunk_counts, run_counts, sleeps, result, faults>>
    /\ runFrame

NavOutcomes == {"ok", "rate_limited", "not_ok", "timeout", "error"}

RaisedResult == [kind |-> "raise", data |-> NoData]

\* `continue`: the next pass of `for attempt in range(RETRY_COUNT)`, or the end
\* of the loop and `return None` (line 354)
NextPass(t) ==
    IF t.nav + 1 < RETRY_COUNT
    THEN [t EXCEPT !.nav = @ + 1]
    ELSE [t EXCEPT !.status = "done", !.result = NoRecord]

\* lines 334-336: status 429: sleep(30) and `continue`
RateLimitedSamePass(t) == t
RateLimited(t) == NextPass(t)

\* One pass of `for attempt in range(RETRY_COUNT)` of extract_ad_details (lines
\* 276-354) for the task t: the navigation ends as o; page is what the site
\* answered and broken says that reading it raised.
\* nav is `attempt`, gotos counts the page.goto calls of the task and last is
\* how the last one ended.
extract_ad_details(t, o, page, cid, broken) ==
    LET g == [t EXCEPT !.gotos = @ + 1, !.last = o]
    IN CASE o = "ok" ->
              [g EXCEPT !.status = "done",
                        !.result = extract_page_content(page, cid, broken)]
         [] o = "rate_limited" -> RateLimited(g)    \* sleep(30); continue
         [] o = "not_ok" -> NextPass(g)             \* continue
         [] o = "timeout" ->                        \* "Timeout" in str(e): raise
              [g EXCEPT !.status = "done", !.result = RaisedResult]
         [] o = "error" ->
              IF g.nav = RETRY_COUNT - 1
              THEN [g EXCEPT !.status = "done", !.result = NoRecord]
              ELSE [g EXCEPT !.nav = @ + 1]     \* sleep(RETRY_DELAY * (attempt + 1))

\* a step of one of the tasks that asyncio.gather runs concurrently
Navigate ==
    /\ rpc = "extracting"
    /\ \E i \in DOMAIN tasks : \E o \in NavOutcomes :
         /\ tasks[i].status = "running"
         /\ o # "ok" => faults > 0
         /\ \E page \in (IF o = "ok" THEN served ELSE {NoData}) :
            \E broken \in (IF o = "ok" /\ faults > 0 THEN BOOLEAN ELSE {FALSE}) :
              /\ tasks' = [tasks EXCEPT ![i] =
                              extract_ad_details(tasks[i], o, page, company_id, broken)]
              /\ faults' = IF o # "ok" \/ broken THEN faults - 1 ELSE faults
    /\ UNCHANGED <<store, rpc, contexts, pages, chunk_index, attempt,
                   successful_ads, chunk_counts, run_counts, sleeps, result, hist>>
    /\ runFrame

IsRecord(r) == r.kind = "record"

\* the streak of failed extractions after the results of one gather, counted
\* up to max_consecutive_timeouts
RECURSIVE FailStreak(_, _)
FailStreak(h, results) ==
    IF results = <<>> THEN h
    ELSE LET cur == IF IsRecord(Head(results)) THEN 0
                    ELSE IF h.fail_streak < max_consecutive_timeouts
                         THEN h.fail_streak + 1 ELSE h.fail_streak
         IN FailStreak([h EXCEPT !.fail_streak = cur,
                                 !.max_fail_streak = IF cur > @ THEN cur ELSE @],
                       Tail(results))

\* the streak of 'existing' outcomes, and the raised calls, after one upsert_ad
\* call
UnchangedStreak(h, outcome) ==
    LET cur == IF outcome = "existing" THEN h.unchanged_streak + 1 ELSE 0
    IN [h EXCEPT !.unchanged_streak = cur,
                 !.max_unchanged_streak = IF cur > @ THEN cur ELSE @,
                 !.upsert_raised = IF outcome = "raised" THEN @ + 1 ELSE @]

\* lines 236-237: `if chunk_index < len(url_chunks) - 1: sleep(RETRY_DELAY)`
PacingAlways(index, total) == TRUE
PacingDue(index, total) == index < total - 1

\* process_chunk_with_retry returns c to process_all_ads (lines 222-236): the
\* counters are added up, then the pacing sleep and the next chunk, or the end
\* of the loop and the finally clause
ChunkReturn(c) ==
    LET total == [new |-> run_counts.new + c.new,
                  updated |-> run_counts.updated + c.updated,
                  existing |-> run_counts.existing + c.existing,
                  processed |-> run_counts.processed
                                   + c.new + c.updated + c.existing]
    IN /\ run_counts' = total
       /\ chunk_counts' = ZeroCounts
       /\ attempt' = 0
       /\ sleeps' = IF PacingDue(chunk_index, ChunkCount(frontier, CHUNK_SIZE))
                    THEN sleeps + 1 ELSE sleeps
       /\ IF chunk_index < ChunkCount(frontier, CHUNK_SIZE) - 1
          THEN /\ chunk_index' = chunk_index + 1
               /\ rpc' = "attempt"
               /\ UNCHANGED result
          ELSE /\ UNCHANGED chunk_index
               /\ rpc' = "finally"
               /\ result' = [kind |-> "returning", value |-> total.processed]

\* the next pass of `for attempt in range(max_retries)`; the counters of the
\* call are kept
NextAttemptSameIndex ==
    /\ attempt' = attempt
    /\ rpc' = "attempt"
    /\ UNCHANGED <<chunk_counts, run_counts, chunk_index, sleeps, result>>
NextAttempt ==
    /\ attempt' = attempt + 1
    /\ rpc' = "attempt"
    /\ UNCHANGED <<chunk_counts, run_counts, chunk_index, sleeps, result>>

\* line 666: `await asyncio.gather(*tasks, return_exceptions=True)` returns
\* when every task has ended, by a result or by an exception
gatherFirst(ts) == \E i \in DOMAIN ts : ts[i].status = "done"
gatherNoWait(ts) == TRUE
gather(ts) == \A i \in DOMAIN ts : ts[i].status = "done"

\* lines 665-674: gather returned; keep the results that are records
Gather ==
    /\ rpc = "extracting"
    /\ gather(tasks)
    /\ LET results == [i \in DOMAIN tasks |-> tasks[i].result]
           good == SelectSeq(results, IsRecord)
       IN /\ successful_ads' = [i \in 1..Len(good) |-> good[i].data]
          /\ hist' = FailStreak(hist, results)
          /\ IF good # <<>>
             THEN /\ rpc' = "upserting"
                  /\ UNCHANGED <<attempt, chunk_counts, run_counts, chunk_index,
                                 sleeps, result>>
             ELSE IF attempt < max_retries - 1
                  THEN NextAttempt
                  ELSE ChunkReturn(ZeroCounts)      \* line 711
    /\ tasks' = <<>>
    /\ UNCHANGED <<store, contexts, pages, faults>>
    /\ runFrame

\* lines 703-709: the last attempt ended in the handler: `return 0, 0, 0`
ChunkFailsRaising ==
    /\ rpc' = "finally"
    /\ result' = [kind |-> "raising", value |-> 0]
    /\ UNCHANGED <<attempt, chunk_counts, run_counts, chunk_index, sleeps>>
ChunkFails == ChunkReturn(ZeroCounts)

\* lines 677-708: one upsert_ad call of `for ad in successful_ads`; an
\* exception goes to the handler of the attempt
UpsertNext ==
    /\ rpc = "upserting"
    /\ \E dbfail \in DbFailures :
         /\ dbfail # "none" => faults > 0
         /\ faults' = IF dbfail = "none" THEN faults ELSE faults - 1
         /\ LET r == upsert_ad(store, Head(successful_ads), dbfail)
                counts == IF r.outcome = "raised" THEN chunk_counts
                          ELSE [chunk_counts EXCEPT ![r.outcome] = @ + 1]
            IN /\ store' = r.store
               /\ hist' = UnchangedStreak(hist, r.outcome)
               /\ IF r.outcome = "raised"
                  THEN /\ successful_ads' = <<>>
                       /\ IF attempt < max_retries - 1
                          THEN /\ attempt' = attempt + 1
                               /\ rpc' = "attempt"
                               /\ chunk_counts' = counts
                               /\ UNCHANGED <<run_counts, chunk_index, sleeps, result>>
                          ELSE ChunkFails
                  ELSE IF Tail(successful_ads) = <<>>
                       THEN /\ successful_ads' = <<>>
                            /\ ChunkReturn(counts)          \* line 695
                       ELSE /\ successful_ads' = Tail(successful_ads)
                            /\ chunk_counts' = counts
                            /\ UNCHANGED <<rpc, attempt, run_counts, chunk_index,
                                           sleeps, result>>
    /\ UNCHANGED <<contexts, pages, tasks>>
    /\ runFrame

\* lines 258-261: `for context in contexts: await context.close()`
CloseAllOnReturn(ctxs, raising) ==
    IF raising THEN ctxs ELSE [i \in DOMAIN ctxs |-> "closed"]
CloseAll(ctxs, raising) == [i \in DOMAIN ctxs |-> "closed"]

\* the finally clause, then the return of processed_count or the exception
Finally ==
    /\ rpc = "finally"
    /\ contexts' = CloseAll(contexts, result.kind = "raising")
    /\ IF result.kind = "raising"
       THEN /\ rpc' = "raised"
            /\ result' = [kind |-> "raised", value |-> 0]
       ELSE /\ rpc' = "returned"
            /\ result' = [kind |-> "returned", value |-> result.value]
    /\ UNCHANGED <<store, pages, chunk_index, attempt, tasks, successful_ads,
                   chunk_counts, run_counts, sleeps, faults, hist>>
    /\ runFrame

\* A run over a frontier of n URLs: discovery is over, the table is st
InitRunWith(n, st, budget, site) ==
    /\ store = st
    /\ lastCall = NoCall
    /\ dpc = "done"
    /\ load_attempt = 0
    /\ scroll_count = 0
    /\ consecutive_unchanged_counts = 0
    /\ last_height = 0
    /\ previous_links_count = 0
    /\ detail_urls = {UrlOf(i) : i \in 1..n}
    /\ verified = 0
    /\ last_wait = 0
    /\ query_seen = FALSE
    /\ rpc = "start"
    /\ company_id = Str("123")
    /\ frontier = FrontierOf(n)
    /\ contexts = <<>>
    /\ pages = <<>>
    /\ chunk_index = 0
    /\ attempt = 0
    /\ tasks = <<>>
    /\ successful_ads = <<>>
    /\ chunk_counts = ZeroCounts
    /\ run_counts = [new |-> 0, updated |-> 0, existing |-> 0, processed |-> 0]
    /\ failed_urls = {}
    /\ consecutive_timeouts = 0
    /\ sleeps = 0
    /\ result = NoResult
    /\ faults = budget
    /\ served = site
    /\ hist = [NoHist EXCEPT !.extracted = [i \in 1..n |-> 0]]
    /\ TriggerIdle

\* the row a previous run left for the page PageV1
RowV1 == AsRow(extract_page_content(PageV1, Str("123"), FALSE).data)

InitRun ==
    \E n \in 0..MaxFrontier : \E st \in {{}, {RowV1}} :
        InitRunWith(n, st, MaxFaults, RunPages)

NextRun ==
    \/ StartRun
    \/ CreateSession
    \/ StartAttempt
    \/ Navigate
    \/ Gather
    \/ UpsertNext
    \/ Finally

SpecRun == InitRun /\ [][NextRun]_vars

\* A long run over a table that already holds what the site serves: every
\* reconciliation without a failure is 'existing'
LongFrontier == 31
LongFaults == 1

InitLongRun == InitRunWith(LongFrontier, {RowV1}, LongFaults, {PageV1})

SpecLongRun == InitLongRun /\ [][NextRun]_vars

-----------------------------------------------------------------------------
(* Properties of the processing run *)

RunEnded == rpc \in {"returned", "raised"}

\* the step that starts a batch: the tasks of its first attempt are created
BatchStarts == rpc = "attempt" /\ attempt = 0 /\ rpc' = "extracting"

\* C1: each frontier URL is handed to the extractor exactly once per run: no
\* second extract_ad_details call is started for a URL, whatever the extraction
\* failures or database errors of its batch.
C1_EachUrlExtractedOnce ==
    \A u \in DOMAIN hist.extracted : hist.extracted[u] <= 1

C4_NoBatchAfterThreeFailures ==
    [][hist.max_fail_streak >= max_consecutive_timeouts => ~BatchStarts]_vars

\* C5: once 30 consecutive reconciliations had the outcome 'existing', the
\* remaining frontier URLs are not extracted: no further batch is started.
C5_NoBatchAfterThirtyUnchanged ==
    [][hist.max_unchanged_streak >= 30 => ~BatchStarts]_vars

-----------------------------------------------------------------------------
(* Properties of the extractor and of a batch *)

\* C11: every record a crawl writes (inserts or updates) carries the company
\* id the crawl was started with, whatever company id its page shows.
C11_WrittenRecordCarriesCrawlCompanyId ==
    (lastCall.op = "extract+upsert" /\ lastCall.outcome \in {"new", "updated"})
        => /\ lastCall.ad_data["company_id"] = ToInt(company_id)
           /\ PostRow(lastCall)["company_id"] = ToInt(company_id)

\* a page that links to company 999 was extracted and written by a crawl of 123
C11_Witness ==
    /\ lastCall.op = "extract+upsert"
    /\ lastCall.outcome \in {"new", "updated"}
    /\ "company_link" \in DOMAIN lastCall.page
    /\ lastCall.page["company_link"] # company_id
    /\ PostRow(lastCall)["company_id"] = IntV("123")

\* C12: when the upsert of one record of a batch fails in the storage layer,
\* the records that follow it in the batch are still reconciled in that pass:
\* after any upsert_ad call the rest of the batch is still to be upserted.
C12_FollowingRecordsStillReconciled ==
    [][(rpc = "upserting" /\ Len(successful_ads) > 1)
          => successful_ads' = Tail(successful_ads)]_vars

\* the run has a next step: the guards of the actions of NextRun
CanStep ==
    \/ rpc \in {"start", "creating", "attempt", "finally"}
    \/ rpc = "extracting" /\ served # {}
    \/ rpc = "upserting" /\ successful_ads # <<>>

\* C13: a persistence failure does not abort the run: with any number of
\* raising upserts process_all_ads does not end by an exception, is never
\* stuck, and returns its processed count after every batch was started.
C13_PersistenceFailureDoesNotAbort ==
    /\ result.kind \in {"raising", "raised"} => hist.upsert_raised = 0
    /\ (hist.upsert_raised > 0 /\ ~RunEnded) => CanStep
    /\ (rpc = "returned" /\ frontier # <<>>)
          => /\ \A u \in DOMAIN hist.extracted : hist.extracted[u] >= 1
             /\ result = [kind |-> "returned", value |-> run_counts.processed]

\* the upserts of the first batch raised in all three attempts; the second
\* batch was processed and the run returned its count
C13_Witness ==
    /\ rpc = "returned"
    /\ hist.upsert_raised = max_retries
    /\ Len(frontier) = 3
    /\ hist.extracted[3] = 1
    /\ result.value = 1

-----------------------------------------------------------------------------
(* One URL under many navigation failures *)

ExtractFaults == 6

\* a run over one URL whose navigations may fail more often than RETRY_COUNT
InitExtract ==
    \E st \in {{}, {RowV1}} : InitRunWith(1, st, ExtractFaults, RunPages)

SpecExtract == InitExtract /\ [][NextRun]_vars

\* the event loop resumes every task that is waiting, and the run itself
SpecExtractFair == SpecExtract /\ WF_vars(NextRun)

\* the step of task i of the current attempt
TaskSteps(i) ==
    /\ rpc = "extracting" /\ rpc' = "extracting"
    /\ i \in DOMAIN tasks
    /\ tasks'[i] # tasks[i]

\* C14: a 429 response in extract_ad_details does not consume a retry slot: the
\* task goes on with the same number of remaining attempts.
C14_RateLimitKeepsRetrySlot ==
    [][\A i \in DOMAIN tasks :
          (TaskSteps(i) /\ tasks'[i].last = "rate_limited")
              => /\ tasks'[i].status = "running"
                 /\ tasks'[i].nav = tasks[i].nav]_vars

\* C15: a navigation timeout in extract_ad_details is transient: while retry
\* budget remains the task goes on to another navigation of the URL.
C15_TimeoutIsRetried ==
    [][\A i \in DOMAIN tasks :
          (TaskSteps(i) /\ tasks'[i].last = "timeout"
                        /\ tasks[i].nav < RETRY_COUNT - 1)
              => tasks'[i].status = "running"]_vars

AllTasksDone == \A i \in DOMAIN tasks : tasks[i].status = "done"

\* C16: one call of extract_ad_details makes at most RETRY_COUNT navigations,
\* whatever mix of 429, non-OK responses and exceptions occurs, and ends with a
\* record, with no record or with a raised error.
C16_ExtractionIsBounded ==
    /\ [](\A i \in DOMAIN tasks :
            /\ tasks[i].gotos <= RETRY_COUNT
            /\ tasks[i].status = "running" => tasks[i].gotos < RETRY_COUNT
            /\ tasks[i].status = "done"
                  => tasks[i].result.kind \in {"record", "none", "raise"})
    /\ (rpc = "extracting") ~> AllTasksDone

\* a call that ended without a record after RETRY_COUNT navigations, the last
\* one answered by 429
C16_Witness ==
    \E i \in DOMAIN tasks :
        /\ tasks[i].status = "done"
        /\ tasks[i].gotos = RETRY_COUNT
        /\ tasks[i].last = "rate_limited"
        /\ tasks[i].result = NoRecord

-----------------------------------------------------------------------------
(* Properties of the discovery loop (checked under SpecDiscovery) *)

\* a scroll iteration of the loop
Scrolls == dpc = "scrolling" /\ scroll_count' = scroll_count + 1

\* C17: every scroll iteration that adds a new link to the frontier resets the
\* consecutive-unchanged counter to zero, so the threshold is not reached by an
\* iteration that still finds new links.
C17_NewLinkResetsCounter ==
    [][(Scrolls /\ detail_urls' # detail_urls)
          => /\ consecutive_unchanged_counts' = 0
             /\ dpc' # "verifying"]_vars

\* C18: a verification pass that finds a link not yet in the frontier resets
\* the unchanged counter and sends discovery back to scrolling.
C18_VerificationFindingResumes ==
    [][(dpc = "verifying" /\ detail_urls' # detail_urls)
          => /\ dpc' = "scrolling"
             /\ consecutive_unchanged_counts' = 0]_vars

\* C19: below the hard ceiling the scroll loop is left normally only with the
\* unchanged counter at the threshold or above and after the minimum number of
\* iterations, through the verification pass.
C19_EarlyExitOnlyByThreshold ==
    /\ (dpc \in {"verifying", "done"} /\ scroll_count <= ScrollCeiling)
          => /\ consecutive_unchanged_counts >= UnchangedThreshold
             /\ scroll_count >= MinScrolls
    /\ (dpc = "done" /\ scroll_count <= ScrollCeiling) => verified = 1

\* discovery completed after five iterations that left the page height as it was
C19_Witness ==
    /\ dpc = "done"
    /\ verified = 1
    /\ scroll_count = UnchangedThreshold
    /\ consecutive_unchanged_counts = UnchangedThreshold

\* C20: the pacing wait of a scroll iteration is base interval + increment x
\* the consecutive-unchanged count (as it is before or after the height test of
\* the iteration).
C20_WaitFollowsUnchangedCount ==
    [][Scrolls =>
         LET before == consecutive_unchanged_counts
             after == IF last_height' = last_height THEN before + 1 ELSE 0
         IN last_wait' \in {base_wait_time + increment * before,
                            base_wait_time + increment * after}]_vars

\* C21: the frontier is a set of normalized URLs: whatever link lists the page
\* returns, in scroll iterations and in the verification pass, detail_urls
\* holds only query-stripped URLs, one per detail page.
C21_FrontierIsNormalized ==
    /\ \A u \in detail_urls : ~HasQuery(u) /\ u \in {Str(b) : b \in BaseUrls}
    /\ Cardinality(detail_urls) <= MaxUrls

\* links with query strings were returned, over several iterations and the
\* verification pass, and every detail page is in the frontier once
C21_Witness ==
    /\ dpc = "done"
    /\ verified = 1
    /\ query_seen
    /\ detail_urls = {Str(b) : b \in BaseUrls}

\* C22: a failed initial load is retried at most LoadRetries times, each retry
\* after a delay of base delay x attempt number; a successful retry goes on to
\* scrolling, and after the last failed retry collect_ad_urls returns without
\* scrolling, with an empty frontier, and does not raise.
C22_LoadRetriedWithBackoff ==
    /\ [][dpc = "retrying"
            => /\ load_attempt < LoadRetries
               /\ last_wait' = LoadRetryBase * (load_attempt + 1)
               /\ dpc' \in {"scrolling", "retrying", "aborted"}
               /\ dpc' = "aborted" <=> (load_attempt = LoadRetries - 1
                                          /\ dpc' # "scrolling")
               /\ dpc' = "retrying" => load_attempt' = load_attempt + 1]_vars
    /\ [](dpc \in {"loading", "retrying", "aborted"}
            => detail_urls = {} /\ scroll_count = 0)

\* the third retry failed after its delay of 3 x base: discovery returned with
\* an empty frontier
C22_Witness ==
    /\ dpc = "aborted"
    /\ load_attempt = LoadRetries - 1
    /\ last_wait = LoadRetryBase * LoadRetries
    /\ detail_urls = {}

\* C23: the verification pass runs at most once per discovery and only on the
\* threshold exit; when the loop ends by the hard ceiling alone, discovery goes
\* from scrolling to done without a verification pass.
C23_VerificationOnlyOnThresholdExit ==
    /\ [](verified <= 1)
    /\ [](dpc = "verifying"
            => /\ verified = 0
               /\ ThresholdReached(consecutive_unchanged_counts, scroll_count))
    /\ [](dpc = "done" /\ verified = 1
            => ThresholdReached(consecutive_unchanged_counts, scroll_count))
    /\ [][dpc = "scrolling" /\ dpc' = "done"
            => /\ CeilingReached(scroll_count')
               /\ ~ThresholdReached(consecutive_unchanged_counts', scroll_count')
               /\ verified' = 0]_vars

\* the loop ended by the ceiling with the counter below the threshold, and no
\* verification pass was made
C23_Witness ==
    /\ dpc = "done"
    /\ verified = 0
    /\ scroll_count > ScrollCeiling
    /\ consecutive_unchanged_counts < UnchangedThreshold
    /\ detail_urls # {}

-----------------------------------------------------------------------------
(* Properties of the session pool, the counters and the batches *)

\* C24: process_all_ads fails on a session-creation failure only when no
\* session could be created at all; with a session already live it goes on
\* with the reduced pool.
C24_FailsOnlyWithoutSession ==
    result.kind \in {"raising", "raised"} => pages = <<>>

\* C25: every URL whose extraction gave no record is counted as failed: when
\* the run returns, the failed URLs plus the processed count are the
\* discovered URLs.
C25_FailedPlusProcessedIsTotal ==
    (rpc = "returned" /\ frontier # <<>>)
        => Cardinality(failed_urls) + result.value = Len(frontier)

\* Runs over frontiers of up to ChunkInputs URLs on a site that serves what the
\* table already holds, without failures
ChunkInputs == 7
MaxChunkSize == 3

InitChunks ==
    \E n \in 0..ChunkInputs : InitRunWith(n, {RowV1}, 0, {PageV1})

SpecChunks == InitChunks /\ [][NextRun]_vars

RECURSIVE Flatten(_)
Flatten(chunks) ==
    IF chunks = <<>> THEN <<>> ELSE Head(chunks) \o Flatten(Tail(chunks))

\* chunks are ceil(n / size) batches of `size` URLs, the last one possibly
\* shorter, that hold the URLs once each, in order
IsPartition(chunks, urls, size) ==
    /\ Len(chunks) * size >= Len(urls)
    /\ (Len(chunks) - 1) * size < Len(urls)
    /\ \A k \in 1..Len(chunks) :
          \/ Len(chunks[k]) = size
          \/ k = Len(chunks) /\ Len(chunks[k]) >= 1 /\ Len(chunks[k]) < size
    /\ Flatten(chunks) = urls

\* C26: _chunk_urls partitions the frontier into ceil(n / C) batches, each of
\* size C except possibly the last, every URL in exactly one batch; the tasks
\* of a batch are the URLs of its chunk.
C26_BatchesPartitionFrontier ==
    /\ \A size \in 1..MaxChunkSize :
          IsPartition(chunk_urls(frontier, size), frontier, size)
    /\ rpc = "extracting"
          => [i \in DOMAIN tasks |-> tasks[i].url]
                = chunk_urls(frontier, CHUNK_SIZE)[chunk_index + 1]

\* 7 URLs in chunks of 2: the fourth batch is in flight and has one URL
C26_Witness ==
    /\ Len(frontier) = 7
    /\ Len(chunk_urls(frontier, CHUNK_SIZE)) = 4
    /\ rpc = "extracting"
    /\ chunk_index = 3
    /\ Len(tasks) = 1
    /\ \A u \in 1..6 : hist.extracted[u] = 1

\* a step that creates extraction tasks (a first attempt or a retry)
ExtractionStarts == rpc # "extracting" /\ rpc' = "extracting"

\* C27: batches are synchronization points: the extraction phase of a batch is
\* left only when every one of its tasks has ended, tasks are created only when
\* no task and no pending upsert of an earlier attempt is left, every task in
\* flight belongs to the current batch, and the run moves to the next batch
\* only with nothing in flight and with the upsert loop of the batch ended (by
\* its last record or by the exception that ends the last attempt).
C27_BatchesAreSynchronizationPoints ==
    /\ [][(rpc = "extracting" /\ rpc' # "extracting") => AllTasksDone]_vars
    /\ [][ExtractionStarts =>
            rpc = "attempt" /\ tasks = <<>> /\ successful_ads = <<>>]_vars
    /\ [][chunk_index' # chunk_index =>
            /\ rpc \in {"extracting", "upserting"}
            /\ tasks' = <<>> /\ successful_ads' = <<>>
            /\ (rpc = "extracting" => AllTasksDone)
            /\ (rpc = "upserting" => tasks = <<>>)]_vars
    /\ [](\A i \in DOMAIN tasks :
            /\ rpc = "extracting"
            /\ \E k \in 1..CHUNK_SIZE :
                 /\ chunk_index * CHUNK_SIZE + k <= Len(frontier)
                 /\ tasks[i].url = frontier[chunk_index * CHUNK_SIZE + k])
    /\ [](rpc = "upserting" => tasks = <<>>)

C27_Witness ==
    /\ rpc = "extracting"
    /\ chunk_index = 1
    /\ attempt = 1
    /\ hist.extracted[1] = 2
    /\ hist.extracted[3] = 2
    /\ \E i \in DOMAIN tasks : tasks[i].status = "running"
    /\ run_counts # ZeroCounts

\* the counters and the table, the state shared by the tasks of a batch
SharedWritten ==
    \/ store' # store
    \/ chunk_counts' # chunk_counts
    \/ run_counts' # run_counts

CountsTotal(c) == c.new + c.updated + c.existing

\* C28: the counters and the table are written only by the coordinating flow
\* once the tasks of the attempt have all ended: a step taken while a task is
\* still running leaves them unchanged, every write happens in the upsert loop
\* (or at the return of an attempt all of whose tasks have ended), and an upsert
\* that does not raise adds exactly one to the counters of the batch.
C28_SharedStateWrittenAfterTasks ==
    /\ [][(rpc = "extracting" /\ ~AllTasksDone) =>
            UNCHANGED <<store, chunk_counts, run_counts>>]_vars
    /\ [][SharedWritten =>
            \/ rpc = "upserting" /\ tasks = <<>>
            \/ rpc = "extracting" /\ AllTasksDone /\ store' = store]_vars
    /\ [][(rpc = "upserting" /\ rpc' = "upserting") =>
            /\ Len(successful_ads') = Len(successful_ads) - 1
            /\ CountsTotal(chunk_counts') = CountsTotal(chunk_counts) + 1]_vars

\* two records of one batch were upserted in turn after both tasks had ended
C28_Witness ==
    /\ rpc = "upserting"
    /\ tasks = <<>>
    /\ Len(successful_ads) = 1
    /\ CountsTotal(chunk_counts) = 1
    /\ hist.extracted[1] = 1
    /\ hist.extracted[2] = 1

\* C29: the URL at position i of a batch runs on page i mod N of the N pages of
\* the run, and with CHUNK_SIZE <= N no two tasks of an attempt, in flight or
\* ended, were given the same page.
C29_PagesAssignedRoundRobin ==
    \A i \in DOMAIN tasks :
        /\ Len(pages) = MAX_CONCURRENT_PAGES
        /\ tasks[i].page_index = (i - 1) % Len(pages)
        /\ tasks[i].page_index + 1 \in DOMAIN pages
        /\ CHUNK_SIZE <= Len(pages) =>
             \A j \in DOMAIN tasks : j # i => tasks[j].page_index # tasks[i].page_index

\* the two tasks of a retried attempt are in flight on the two pages
C29_Witness ==
    /\ rpc = "extracting"
    /\ Len(pages) = 2
    /\ Len(tasks) = 2
    /\ tasks[1].status = "running" /\ tasks[2].status = "running"
    /\ tasks[1].gotos > 0 /\ tasks[2].gotos > 0
    /\ tasks[1].page_index = 0 /\ tasks[2].page_index = 1
    /\ attempt = 1

\* C30: the pacing delay of process_all_ads is slept once after each batch but
\* the last: while the run is in batch k it has slept k times, every pacing
\* delay goes with the move to the next batch, and a run over k > 0 batches
\* returns after k - 1 delays.
C30_PacingBetweenBatchesOnly ==
    /\ [](sleeps = chunk_index)
    /\ []((rpc = "returned" /\ frontier # <<>>) =>
            sleeps = ChunkCount(frontier, CHUNK_SIZE) - 1)
    /\ [](frontier = <<>> => sleeps = 0)
    /\ [][sleeps' # sleeps =>
            /\ sleeps' = sleeps + 1
            /\ chunk_index' = chunk_index + 1
            /\ rpc \in {"extracting", "upserting"} /\ rpc' = "attempt"
            /\ tasks' = <<>> /\ successful_ads' = <<>>]_vars

\* a run over two batches, the first retried, has returned after one delay
C30_Witness ==
    /\ rpc = "returned"
    /\ Len(frontier) = 3
    /\ sleeps = 1
    /\ hist.extracted[1] > 1
    /\ hist.extracted[3] >= 1

\* C40: the consecutive-unchanged counter grows by at most one per scroll
\* iteration, so a discovery that leaves the loop through the threshold exit
\* has run at least UnchangedThreshold scroll iterations.
C40_CounterGrowsByAtMostOne ==
    /\ [][Scrolls =>
            consecutive_unchanged_counts' <= consecutive_unchanged_counts + 1]_vars
    /\ [](dpc = "verifying" => scroll_count >= UnchangedThreshold)

\* C37: the processed count returned by process_all_ads never exceeds the
\* number of discovered URLs, and it is the number of records reconciled in the
\* run: the total of the new, updated and existing counters, each URL counted
\* at most once.
C37_ProcessedCountIsExact ==
    rpc = "returned" =>
        /\ result.value <= Len(frontier)
        /\ result.value = run_counts.new + run_counts.updated + run_counts.existing
        /\ result.value <= Cardinality({u \in DOMAIN hist.extracted :
                                          hist.extracted[u] > 0})

\* C34: a failed upsert_ad is all-or-nothing: whenever the call raises (at the
\* validation, the transformation, the lookup or the commit) the transaction
\* was rolled back and nothing was committed, the rows of that ad_id are the
\* ones persisted before the call, and the call ends by the exception and with
\* none of the outcomes 'new', 'updated', 'existing'.
C34_FailedUpsertIsAllOrNothing ==
    (IsUpsert(lastCall) /\ lastCall.outcome = "raised")
    => /\ lastCall.rolled_back
       /\ ~lastCall.committed
       /\ lastCall.assigned = {}
       /\ "ad_id" \in DOMAIN lastCall.ad_data
             => Matching(store, CallId(lastCall)) = lastCall.pre
       /\ lastCall.outcome \notin {"new", "updated", "existing"}

\* an upsert of a record that differs from its persisted row has raised, and
\* the row is the one persisted before
C34_Witness ==
    /\ OnPersisted(lastCall)
    /\ lastCall.outcome = "raised"
    /\ lastCall.rolled_back
    /\ Truthy(CallId(lastCall))
    /\ DiffFields(lastCall) # {}
    /\ Matching(store, CallId(lastCall)) = lastCall.pre
    /\ AsRow(lastCall.ad_data) \notin store

-----------------------------------------------------------------------------
(* src/src/utils.py: clean_percentage and format_date on their own *)

\* str.lower() on a tokenised string, token by token
LowerTok(tok) ==
    IF tok \in {"Less than", "LESS THAN"} THEN "less than"
    ELSE IF tok = "US" THEN "us"
    ELSE IF tok = "N/A" THEN "n/a"
    ELSE tok
Lower(v) == [i \in DOMAIN v |-> IF i = 1 THEN v[i] ELSE LowerTok(v[i])]

\* `"less than" in value`
ContainsLessThan(v) == \E i \in 2..Len(v) : v[i] = "less than"

\* utils.clean_percentage (lines 47-54)
clean_percentage(value) ==
    IF ~Truthy(value) THEN Str("0%")
    ELSE LET lowered == Lower(value) IN
         IF ContainsLessThan(lowered) THEN Str("<1%")
         ELSE Strip(lowered)

\* the texts given to format_date: every month name and a word that is none,
\* days with and without a leading zero and out of range, four- and two-digit
\* years, with and without surrounding blanks; and values that are no date text
DateText(m, d, y) == <<"str", m, " ", d, ",", " ", y>>
NoDateValues == {None, EmptyStr, <<"str", " ">>, Str("2024/01/01"), Str("soon"),
                 IntV("5")}
DateInputs ==
    {DateText(m, d, y) :
        m \in {MonthNames[i] : i \in DOMAIN MonthNames} \cup {"Foo"},
        d \in {"1", "9", "28", "29", "30", "31", "01", "0", "32"},
        y \in Years \cup {"24"}}
    \cup {<<"str", " ">> \o Tail(DateText("Dec", d, y)) \o <<" ">> :
            d \in {"31", "32"}, y \in Years \cup {"24"}}
    \cup NoDateValues

\* the values given to clean_percentage
PercentageInputs ==
    {None, EmptyStr, <<"str", " ">>, Str("50%"), <<"str", " ", "50%", " ">>,
     <<"str", "less than", " ", "1%">>, <<"str", "Less than", " ", "1%">>,
     <<"str", " ", "LESS THAN", " ", "1%">>, <<"str", "50%", " ", "US">>,
     Str("N/A")}

InitUtils ==
    /\ store = {}
    /\ lastCall = [op |-> "none", arg |-> None, out |-> None]
    /\ DiscIdle
    /\ RunIdle
    /\ TriggerIdle
    /\ company_id = Str("123")

FormatDateCall ==
    /\ \E date_str \in DateInputs :
         lastCall' = [op |-> "format_date", arg |-> date_str,
                      out |-> format_date(date_str)]
    /\ UNCHANGED <<store, discVars, runVars, trigVars>>

CleanPercentageCall ==
    /\ \E value \in PercentageInputs :
         lastCall' = [op |-> "clean_percentage", arg |-> value,
                      out |-> clean_percentage(value)]
    /\ UNCHANGED <<store, discVars, runVars, trigVars>>

NextUtils == FormatDateCall \/ CleanPercentageCall

SpecUtils == InitUtils /\ [][NextUtils]_vars

\* 'Mon D, YYYY' as the claim reads it: a month name, a day of that month
\* written without a leading zero, a four-digit year
WellFormedDate(v) ==
    /\ IsStr(v) /\ Len(v) = 7
    /\ v[3] = " " /\ v[5] = "," /\ v[6] = " "
    /\ v[7] \in Years
    /\ \E m \in 1..12, d \in 1..31 :
         /\ v[2] = MonthNames[m] /\ v[4] = OneOrTwoDigit[d]
         /\ d <= DaysInMonth(v[7], m)

\* absent, empty, blank, no date text at all, an unknown month name, a day
\* that the month does not have, a two-digit year
UnparsableDate(v) ==
    \/ v \in NoDateValues
    \/ /\ IsStr(v) /\ Len(v) >= 7
       /\ LET s == Strip(v) IN
            \/ s[2] = "Foo"
            \/ s[4] \in {"0", "32"}
            \/ s[7] = "24"
            \/ \E m \in 1..12 :
                 /\ s[2] = MonthNames[m] /\ s[7] \in Years
                 /\ IndexIn(OneOrTwoDigit, s[4]) > DaysInMonth(s[7], m)

\* C35: format_date ends by a return for every input: a well-formed
\* 'Mon D, YYYY' text gives 'YYYY/MM/DD' with month and day in two digits, an
\* absent, empty or unparsable input gives None, and every result is None or a
\* text of that form.
C35_FormatDateTotal ==
    lastCall.op = "format_date" =>
        LET x == lastCall.arg
            out == lastCall.out
        IN /\ \/ out = None
              \/ /\ IsStr(out) /\ Len(out) = 6 /\ out[3] = "/" /\ out[5] = "/"
                 /\ out[2] \in Years
                 /\ IndexIn(TwoDigit, out[4]) \in 1..12
                 /\ IndexIn(TwoDigit, out[6]) \in 1..31
           /\ WellFormedDate(x) =>
                \E m \in 1..12, d \in 1..31 :
                    /\ x[2] = MonthNames[m] /\ x[4] = OneOrTwoDigit[d]
                    /\ out = <<"str", x[7], "/", TwoDigit[m], "/", TwoDigit[d]>>
           /\ UnparsableDate(x) => out = None

\* format_date("Jan 1, 2024") == "2024/01/01"
C35_Witness ==
    /\ lastCall.op = "format_date"
    /\ lastCall.arg = <<"str", "Jan", " ", "1", ",", " ", "2024">>
    /\ lastCall.out = <<"str", "2024", "/", "01", "/", "01">>

\* C36: clean_percentage gives '0%' for an absent or empty value, '<1%' for a
\* value that contains 'less than' in any letter case, and otherwise the value
\* itself without its surrounding whitespace.
C36_CleanPercentageKeepsValue ==
    lastCall.op = "clean_percentage" =>
        LET x == lastCall.arg
            out == lastCall.out
        IN IF x \in {None, EmptyStr} THEN out = Str("0%")
           ELSE IF \E i \in 2..Len(x) : x[i] \in {"less than", "Less than", "LESS THAN"}
                THEN out = Str("<1%")
                ELSE out = Strip(x)

-----------------------------------------------------------------------------
(* Termination of process_all_ads *)

TermFrontier == 3
TermFaults == 2

\* runs over up to TermFrontier URLs of a site that answers with a page of ad
\* 101 or with a page without an ad id, with up to TermFaults failures
InitTerminate ==
    \E n \in 0..TermFrontier : InitRunWith(n, {}, TermFaults, {PageV1, PageNoId})

\* every await of the run returns or raises, and the event loop resumes every
\* task that is waiting
SpecTerminate == InitTerminate /\ [][NextRun]_vars /\ WF_vars(NextRun)

\* C38: process_all_ads terminates: a batch is attempted at most max_retries
\* times, an extraction navigates at most RETRY_COUNT times, and every run
\* reaches its cleanup and returns or raises.
C38_RunTerminates ==
    /\ [](attempt < max_retries)
    /\ [](\A i \in DOMAIN tasks :
            tasks[i].nav < RETRY_COUNT /\ tasks[i].gotos <= RETRY_COUNT)
    /\ [](\A u \in DOMAIN hist.extracted : hist.extracted[u] <= max_retries)
    /\ <>RunEnded
    /\ [](rpc = "finally" => <>RunEnded)

\* a run over two batches has returned after the first batch was attempted
\* max_retries times
C38_Witness ==
    /\ rpc = "returned"
    /\ Len(frontier) = 3
    /\ hist.extracted[1] = max_retries
    /\ hist.extracted[3] >= 1
    /\ \A i \in DOMAIN contexts : contexts[i] = "closed"

-----------------------------------------------------------------------------
(* src/main.py: the /crawl trigger *)

CrawlFaults == 1

\* the identifiers a request may carry: a numeric company id, an account name,
\* and the empty string
CrawlCompanyIds == {Str("123"), Str("acme"), EmptyStr}

\* utils.generate_linkedin_url (lines 71-75)
generate_linkedin_url(cid) ==
    IF IsDigits(cid)
    THEN <<"str", "https://www.linkedin.com/ad-library/search?companyIds=", cid[2]>>
    ELSE <<"str", "https://www.linkedin.com/ad-library/search?accountOwner=">>
            \o Tail(cid)

\* an exception object: its class, the status code of an HTTPException, and
\* the failure it was raised for (kept in __context__ when a handler raises)
Exc(type, origin) == [type |-> type, status_code |-> 0, context |-> origin]
HTTPException(status, origin) ==
    [type |-> "HTTPException", status_code |-> status, context |-> origin]

\* `except cls`: HTTPException, PlaywrightError and SQLAlchemyError all derive
\* from Exception
IsInstance(e, cls) == cls = "Exception" \/ e.type = cls

\* lines 180-185: the handlers of the inner try
InnerHandlers(e) ==
    IF IsInstance(e, "PlaywrightError") THEN HTTPException(502, e.context)
    ELSE IF IsInstance(e, "Exception") THEN HTTPException(500, e.context)
    ELSE e

\* lines 187-192: the handlers of the outer try, which the exceptions raised
\* by the inner handlers pass through
OuterHandlers(e) ==
    IF IsInstance(e, "SQLAlchemyError") THEN HTTPException(503, e.context)
    ELSE IF IsInstance(e, "Exception") THEN HTTPException(500, e.context)
    ELSE e

\* the answer to a request that ended by the HTTPException e
ErrorResponse(e) ==
    [status_code |-> e.status_code, body |-> <<>>, context |-> e.context]

\* lines 174-178: the result of a crawl that processed its frontier
SuccessBodyProcessedTwice(processed_count, urls) ==
    [status |-> "success", processed_ads |-> processed_count,
     total_ads_found |-> processed_count]
SuccessBody(processed_count, urls) ==
    [status |-> "success", processed_ads |-> processed_count,
     total_ads_found |-> Cardinality(urls)]

\* lines 165-170: the result of a crawl that found no ad
NoAdsBody == [status |-> "success", processed_ads |-> 0, total_ads_found |-> 0]

SuccessResponse(body) == [status_code |-> 200, body |-> body, context |-> "none"]

Respond(r) == tpc' = "responded" /\ response' = r

\* list(self.detail_urls): the URLs are interchangeable, so one order stands for
\* every order the set may be listed in
RECURSIVE ListOf(_)
ListOf(S) == IF S = {} THEN <<>>
             ELSE LET x == CHOOSE y \in S : TRUE IN <<x>> \o ListOf(S \ {x})

\* lines 138-145: the request is refused without an identifier
CrawlRequest ==
    /\ tpc = "request"
    /\ IF ~Truthy(company_id)
       THEN Respond(ErrorResponse(HTTPException(400, "no company id")))
       ELSE tpc' = "launch" /\ UNCHANGED response
    /\ UNCHANGED <<upsertVars, discVars, runVars>>

\* lines 147-152: the browser, its context and the page, inside the outer try
\* only
CrawlLaunch ==
    /\ tpc = "launch"
    /\ \E ok \in BOOLEAN :
         IF ok
         THEN /\ IsStr(generate_linkedin_url(company_id))
              /\ tpc' = "goto" /\ UNCHANGED response
         ELSE Respond(ErrorResponse(OuterHandlers(Exc("PlaywrightError", "launch"))))
    /\ UNCHANGED <<upsertVars, discVars, runVars>>

\* lines 156-161: page.goto(start_url) and the test of response.ok
CrawlGoto ==
    /\ tpc = "goto"
    /\ \E o \in {"ok", "not ok", "raises"} :
         CASE o = "ok" ->
                /\ tpc' = "collecting"
                /\ dpc' = "loading"
                /\ UNCHANGED response
           [] o = "not ok" ->
                /\ Respond(ErrorResponse(OuterHandlers(InnerHandlers(
                       HTTPException(400, "listing not ok")))))
                /\ UNCHANGED dpc
           [] o = "raises" ->
                /\ Respond(ErrorResponse(OuterHandlers(InnerHandlers(
                       Exc("PlaywrightError", "playwright")))))
                /\ UNCHANGED dpc
    /\ UNCHANGED <<load_attempt, scroll_count, consecutive_unchanged_counts,
                   last_height, previous_links_count, detail_urls, verified,
                   last_wait, query_seen>>
    /\ UNCHANGED <<upsertVars, runVars>>

\* lines 161-172: collect_ad_urls has returned or raised (dpc keeps how); its
\* locals are gone. Without a URL the handler returns; otherwise it calls
\* process_all_ads.
CrawlCollected ==
    /\ tpc = "collecting"
    /\ DiscoveryEnded
    /\ UNCHANGED dpc
    /\ load_attempt' = 0
    /\ scroll_count' = 0
    /\ consecutive_unchanged_counts' = 0
    /\ last_height' = 0
    /\ previous_links_count' = 0
    /\ verified' = 0
    /\ last_wait' = 0
    /\ query_seen' = FALSE
    /\ UNCHANGED detail_urls
    /\ IF dpc = "raised"
       THEN /\ Respond(ErrorResponse(OuterHandlers(InnerHandlers(
                   Exc("PlaywrightError", "playwright")))))
            /\ UNCHANGED <<rpc, frontier, hist>>
       ELSE IF detail_urls = {}
       THEN /\ Respond(SuccessResponse(NoAdsBody))
            /\ UNCHANGED <<rpc, frontier, hist>>
       ELSE /\ tpc' = "processing"
            /\ rpc' = "start"
            /\ frontier' = ListOf(detail_urls)
            /\ hist' = [NoHist EXCEPT
                          !.extracted = [i \in 1..Cardinality(detail_urls) |-> 0]]
            /\ UNCHANGED response
    /\ UNCHANGED <<upsertVars, company_id, contexts, pages, chunk_index, attempt,
                   tasks, successful_ads, chunk_counts, run_counts, failed_urls,
                   consecutive_timeouts, sleeps, result, faults, served>>

\* lines 172-185: process_all_ads has returned its count, or has raised the
\* error of new_context / new_page
CrawlProcessed ==
    /\ tpc = "processing"
    /\ RunEnded
    /\ IF rpc = "returned"
       THEN Respond(SuccessResponse(SuccessBody(result.value, detail_urls)))
       ELSE Respond(ErrorResponse(OuterHandlers(InnerHandlers(
                Exc("PlaywrightError", "playwright")))))
    /\ UNCHANGED <<upsertVars, discVars, runVars>>

\* a /crawl request for any identifier, on an empty table, of a site that
\* answers detail requests with the page of ad 101
InitRequest ==
    /\ InitUpsert
    /\ DiscIdle
    /\ tpc = "request"
    /\ response = NoResponse
    /\ company_id \in CrawlCompanyIds
    /\ rpc = "idle"
    /\ frontier = <<>>
    /\ contexts = <<>>
    /\ pages = <<>>
    /\ chunk_index = 0
    /\ attempt = 0
    /\ tasks = <<>>
    /\ successful_ads = <<>>
    /\ chunk_counts = ZeroCounts
    /\ run_counts = [new |-> 0, updated |-> 0, existing |-> 0, processed |-> 0]
    /\ failed_urls = {}
    /\ consecutive_timeouts = 0
    /\ sleeps = 0
    /\ result = NoResult
    /\ faults = CrawlFaults
    /\ served = {PageV1}
    /\ hist = NoHist

\* process_all_ads called on a crawler whose discovery found nothing
InitEmptyRun == InitRunWith(0, {}, CrawlFaults, {PageV1})

InitCrawl == InitRequest \/ InitEmptyRun

NextCrawl ==
    \/ CrawlRequest
    \/ CrawlLaunch
    \/ CrawlGoto
    \/ NextDiscovery
    \/ CrawlCollected
    \/ NextRun
    \/ CrawlProcessed

SpecCrawl == InitCrawl /\ [][NextCrawl]_vars

-----------------------------------------------------------------------------
(* Properties of the trigger (checked under SpecCrawl) *)

Responded == tpc = "responded"

\* C31: the trigger maps the failure categories to distinct status codes: a
\* listing page with a non-OK response is answered 400, a Playwright error
\* during the crawl 502, a database error 503, and only other errors 500.
C31_FailuresMapToStatusCodes ==
    Responded =>
        /\ response.context = "listing not ok" => response.status_code = 400
        /\ response.context = "playwright" => response.status_code = 502
        /\ response.context = "database" => response.status_code = 503
        /\ response.status_code = 500 =>
             response.context \notin {"listing not ok", "playwright", "database"}

\* C32: when discovery ends with an empty frontier the crawl does no work and
\* succeeds: the trigger answers success with both counts 0 and process_all_ads
\* is not entered; and process_all_ads on an empty frontier returns 0. In both
\* cases no session is created, nothing is extracted and nothing is upserted.
C32_EmptyFrontierSucceeds ==
    LET no_work == /\ contexts = <<>> /\ pages = <<>> /\ tasks = <<>>
                   /\ successful_ads = <<>>
                   /\ store = {} /\ lastCall = NoCall
                   /\ \A u \in DOMAIN hist.extracted : hist.extracted[u] = 0
    IN /\ (tpc \in {"processing", "responded"} /\ dpc \in {"done", "aborted"}
              /\ detail_urls = {})
          => /\ Responded
             /\ response.status_code = 200
             /\ response.body.status = "success"
             /\ response.body.processed_ads = 0
             /\ response.body.total_ads_found = 0
             /\ rpc = "idle"
             /\ no_work
       /\ (rpc \notin {"idle", "start"} /\ frontier = <<>>)
          => /\ rpc = "returned"
             /\ result = [kind |-> "returned", value |-> 0]
             /\ no_work

\* discovery gave up loading the listing page and the trigger answered
C32_Witness ==
    /\ Responded
    /\ dpc = "aborted"
    /\ detail_urls = {}
    /\ response = SuccessResponse(NoAdsBody)

\* C33: the frontier is read-only during processing: from the call of
\* process_all_ads on, detail_urls is the set the frontier was listed from, and
\* the discovered count of the result is its size at the end of discovery.
C33_FrontierReadOnlyInProcessing ==
    /\ (tpc = "processing" \/ (Responded /\ rpc # "idle"))
       => /\ detail_urls = {frontier[i] : i \in DOMAIN frontier}
          /\ Cardinality(detail_urls) = Len(frontier)
    /\ (Responded /\ rpc = "returned")
       => /\ response.status_code = 200
          /\ response.body.total_ads_found = Len(frontier)
          /\ response.body.processed_ads = result.value

\* two URLs were discovered, one record was processed
C33_Witness ==
    /\ Responded
    /\ rpc = "returned"
    /\ Len(frontier) = 2
    /\ response.body.total_ads_found = 2
    /\ response.body.processed_ads = 1

\* C39: with a non-numeric account name as the crawl identifier the extractor
\* returns no record for any page, so the run starts no upsert, inserts and
\* updates no row, and the trigger reports a processed count of 0.
C39_AccountNameProcessesNothing ==
    (company_id \in CrawlCompanyIds /\ ~IsDigits(company_id))
    => /\ store = {}
       /\ lastCall = NoCall
       /\ successful_ads = <<>>
       /\ rpc # "upserting"
       /\ \A i \in DOMAIN tasks : ~IsRecord(tasks[i].result)
       /\ run_counts.processed = 0
       /\ result.value = 0
       /\ (Responded /\ response.status_code = 200)
             => response.body.processed_ads = 0

\* a crawl for the account name 'acme' found two URLs, extracted the page of
\* ad 101 in every attempt and processed nothing
C39_Witness ==
    /\ Responded
    /\ company_id = Str("acme")
    /\ response.status_code = 200
    /\ response.body.total_ads_found = 2
    /\ response.body.processed_ads = 0
    /\ hist.extracted[1] = max_retries
    /\ hist.extracted[2] = max_retries
====
